---- MODULE Spec2Model ----
(***************************************************************************)
(* Model of ab_script.py: the cleaning filters, the cohort split, the      *)
(* pooled two-proportion z-test and the report printed by the script.      *)
(*                                                                         *)
(* A DataFrame is the sequence of its rows; a row is a record with the     *)
(* four columns user_id, group, landing_page, converted.  A Python float   *)
(* is a fixed-point integer counting units of 1/Scale.                     *)
(***************************************************************************)
EXTENDS Integers, Sequences, FiniteSets

\* ------------------------------------------------------------------ bounds
\* longest DataFrame with arbitrary (possibly repeated) user_ids
MaxLen == 3
\* longest DataFrame whose user_ids are all distinct
MaxRows == 4
\* fixed-point resolution standing for float precision
Scale == 10000

\* ------------------------------------------------------------ data domain
Groups == {"treatment", "control"}
Pages == {"old_page", "new_page"}

\* the columns other than user_id
Cells == [group : Groups, landing_page : Pages, converted : {0, 1}]

\* the DataFrame of n rows with the user_ids u and the other columns c
Frame(n, u, c) ==
    [i \in 1..n |-> [user_id |-> u[i], group |-> c[i].group,
                     landing_page |-> c[i].landing_page, converted |-> c[i].converted]]

\* user_ids numbered in order of first appearance (the filters only ever
\* compare user_ids for equality)
FirstAppearanceOrder(n, u) ==
    \A i \in 1..n : \A v \in 1..(u[i] - 1) : \E j \in 1..(i - 1) : u[j] = v

\* the DataFrames of n rows: any user_ids up to MaxLen rows, distinct
\* user_ids up to MaxRows rows
UserIds(n) ==
    IF n > MaxLen THEN {[i \in 1..n |-> i]}
    ELSE {u \in [1..n -> 1..n] : FirstAppearanceOrder(n, u)}

\* -------------------------------------------------------------- arithmetic
Abs(x) == IF x < 0 THEN -x ELSE x

\* float division: the quotient of the magnitudes, with the sign of a/b
FDiv(a, b) ==
    IF (a < 0) = (b < 0) THEN Abs(a) \div Abs(b) ELSE -(Abs(a) \div Abs(b))

RECURSIVE SqrtSearch(_, _, _)
SqrtSearch(x, lo, hi) ==
    IF lo >= hi THEN lo
    ELSE LET mid == (lo + hi + 1) \div 2
         IN  IF mid * mid <= x THEN SqrtSearch(x, mid, hi)
             ELSE SqrtSearch(x, lo, mid - 1)

\* x ** 0.5 for x counted in units of 1/Scale^2; the result in units of 1/Scale
FSqrt(x) == SqrtSearch(x, 0, 2 * Scale)

\* ------------------------------------------------- scipy.stats.norm (cdf, ppf)
\* the standard normal table: <<z in hundredths, cdf in ten-thousandths>>
NormTable ==
    << <<0, 5000>>, <<50, 6915>>, <<100, 8413>>, <<150, 9332>>, <<196, 9750>>,
       <<200, 9772>>, <<250, 9938>>, <<300, 9987>>, <<350, 9998>>, <<400, 10000>> >>

KnotZ(k) == (NormTable[k][1] * Scale) \div 100
KnotP(k) == (NormTable[k][2] * Scale) \div 10000

\* cdf on z >= 0: linear interpolation between the knots of the table
NormCdfPos(z) ==
    IF z >= KnotZ(Len(NormTable)) THEN Scale
    ELSE LET k == CHOOSE j \in 1..(Len(NormTable) - 1) : KnotZ(j) <= z /\ z < KnotZ(j + 1)
         IN  KnotP(k) + ((KnotP(k + 1) - KnotP(k)) * (z - KnotZ(k))) \div (KnotZ(k + 1) - KnotZ(k))

\* stats.norm.cdf: symmetric about 0
NormCdf(z) == IF z >= 0 THEN NormCdfPos(z) ELSE Scale - NormCdfPos(-z)

RECURSIVE PpfSearch(_, _, _)
PpfSearch(q, lo, hi) ==
    IF lo >= hi THEN lo
    ELSE LET mid == (lo + hi) \div 2
         IN  IF NormCdf(mid) >= q THEN PpfSearch(q, lo, mid)
             ELSE PpfSearch(q, mid + 1, hi)

\* stats.norm.ppf: the least z whose cdf reaches q (q >= 1/2)
NormPpf(q) == PpfSearch(q, 0, KnotZ(Len(NormTable)))

\* ----------------------------------------------------------------- cleaner
\* mutation: keep="last" instead of the default keep="first"
RECURSIVE DropDuplicatedKeepLast(_)
DropDuplicatedKeepLast(raw_data) ==
    IF raw_data = <<>> THEN <<>>
    ELSE LET first == Head(raw_data)
             rest == Tail(raw_data)
         IN  IF \E j \in 1..Len(rest) : rest[j].user_id = first.user_id
             THEN DropDuplicatedKeepLast(rest)
             ELSE <<first>> \o DropDuplicatedKeepLast(rest)

\* mutation: each call drops only the last row that repeats a user_id
DropOneDuplicate(raw_data) ==
    LET dups == {i \in 1..Len(raw_data) :
                    \E j \in 1..(i - 1) : raw_data[j].user_id = raw_data[i].user_id}
    IN  IF dups = {} THEN raw_data
        ELSE LET d == CHOOSE i \in dups : \A k \in dups : k <= i
             IN  SubSeq(raw_data, 1, d - 1) \o SubSeq(raw_data, d + 1, Len(raw_data))

\* raw_data.drop_duplicates(subset="user_id"): a row is dropped when an
\* earlier row has its user_id
RECURSIVE drop_duplicated_userid(_)
drop_duplicated_userid(raw_data) ==
    IF raw_data = <<>> THEN <<>>
    ELSE LET n == Len(raw_data)
             last == raw_data[n]
             kept == drop_duplicated_userid(SubSeq(raw_data, 1, n - 1))
         IN  IF \E j \in 1..(n - 1) : raw_data[j].user_id = last.user_id
             THEN kept
             ELSE Append(kept, last)

\* mutation: | binding tighter than &
MismatchMaskWrongPrecedence(r) ==
    /\ r.group = "treatment"
    /\ (r.landing_page = "old_page" \/ r.group = "control")
    /\ r.landing_page = "new_page"

\* the boolean mask of drop_mismatched_data (& binds tighter than |)
MismatchMask(r) ==
    \/ (r.group = "treatment" /\ r.landing_page = "old_page")
    \/ (r.group = "control" /\ r.landing_page = "new_page")

drop_mismatched_data(raw_data) == SelectSeq(raw_data, MismatchMask)

\* mutation: the duplicate filter is not applied
DropIncoherentNoDedup(raw_data) == drop_mismatched_data(raw_data)

drop_incoherent_data(raw_data) ==
    LET df == drop_mismatched_data(raw_data)
        cleaned_data == drop_duplicated_userid(df)
    IN  cleaned_data

\* ---------------------------------------------------------------- splitter
IsTreatment(r) == r.group = "treatment"
IsControl(r) == r.group = "control"

\* mutation: both queries select the treatment group
SplitDataSameQuery(data) ==
    [treatment |-> SelectSeq(data, IsTreatment), control |-> SelectSeq(data, IsTreatment)]

split_data(data) ==
    [treatment |-> SelectSeq(data, IsTreatment), control |-> SelectSeq(data, IsControl)]

\* ------------------------------------------------------- statistics engine
NoError == [type |-> "none", by |-> "none", line |-> 0]
ZeroDivisionError(fn, ln) == [type |-> "ZeroDivisionError", by |-> fn, line |-> ln]

Converted(data) == Cardinality({i \in 1..Len(data) : data[i].converted = 1})

\* mutation: an empty cohort yields a silent NaN (held as 0) instead of raising
ConversionRateSilent(data) ==
    IF Len(data) = 0
    THEN [error |-> NoError, value |-> 0]
    ELSE [error |-> NoError, value |-> FDiv(Converted(data) * Scale, Len(data))]

\* data[data.converted == 1].shape[0] / data.shape[0]: int / int
compute_conversion_rate(data) ==
    IF Len(data) = 0
    THEN [error |-> ZeroDivisionError("compute_conversion_rate", 87), value |-> 0]
    ELSE [error |-> NoError, value |-> FDiv(Converted(data) * Scale, Len(data))]

Raised(err) == [error |-> err, observed_z_score |-> 0, critical_z_score |-> 0]

\* lines 113-114: the pooled rate p and (p * (1 - p) * (1 / n_t + 1 / n_c)) ** 0.5
PoolStdev(n_treatment, n_control, treatment_rate, control_rate) ==
    LET p == FDiv(n_treatment * treatment_rate + n_control * control_rate,
                  n_treatment + n_control)
    IN  FSqrt(FDiv(p * (Scale - p), Scale)
              * (FDiv(Scale, n_treatment) + FDiv(Scale, n_control)))

\* mutation: a zero pooled standard error returns a z-score of 0
ZStatisticGuarded(treatment, control) ==
    LET n_treatment == Len(treatment)
        n_control == Len(control)
        t == compute_conversion_rate(treatment)
        c == compute_conversion_rate(control)
    IN  IF t.error # NoError THEN Raised(t.error)
        ELSE IF c.error # NoError THEN Raised(c.error)
        ELSE IF n_treatment + n_control = 0
        THEN Raised(ZeroDivisionError("compute_z_statistic", 113))
        ELSE IF n_treatment = 0 \/ n_control = 0
        THEN Raised(ZeroDivisionError("compute_z_statistic", 114))
        ELSE LET pool_stdev == PoolStdev(n_treatment, n_control, t.value, c.value)
             IN  [error |-> NoError,
                  observed_z_score |-> IF pool_stdev = 0 THEN 0
                                       ELSE FDiv((t.value - c.value) * Scale, pool_stdev),
                  critical_z_score |-> NormPpf((975 * Scale) \div 1000)]

\* every division of lines 106-120 raises ZeroDivisionError on a zero divisor
compute_z_statistic(treatment, control) ==
    LET n_treatment == Len(treatment)
        n_control == Len(control)
        t == compute_conversion_rate(treatment)
        c == compute_conversion_rate(control)
    IN  IF t.error # NoError THEN Raised(t.error)
        ELSE IF c.error # NoError THEN Raised(c.error)
        ELSE IF n_treatment + n_control = 0
        THEN Raised(ZeroDivisionError("compute_z_statistic", 113))
        ELSE IF n_treatment = 0 \/ n_control = 0
        THEN Raised(ZeroDivisionError("compute_z_statistic", 114))
        ELSE LET diff_rate == t.value - c.value
                 pool_stdev == PoolStdev(n_treatment, n_control, t.value, c.value)
             IN  IF pool_stdev = 0
                 THEN Raised(ZeroDivisionError("compute_z_statistic", 117))
                 ELSE [error |-> NoError,
                       observed_z_score |-> FDiv(diff_rate * Scale, pool_stdev),
                       critical_z_score |-> NormPpf((975 * Scale) \div 1000)]

\* line 129: 2 * (1 - stats.norm.cdf(observed_z_score))
PValue(z) == 2 * (Scale - NormCdf(z))

\* the threshold 0.05 of line 134
Alpha == (5 * Scale) \div 100

\* the format :.2f : the value rounded to hundredths
Fmt2(x) ==
    LET h == (Abs(x) * 100 + Scale \div 2) \div Scale
    IN  IF x < 0 THEN -h ELSE h

\* --------------------------------------------------------------- the script
VARIABLES
    pc,                 \* the statement of the __main__ block to execute next
    df,                 \* the DataFrame read from ab_data.csv
    cleaned_data,
    treatment,
    control,
    observed_z_score,
    critical_z_score,
    p_value,
    stdout,             \* the lines printed so far
    error,              \* the exception that ended the run, if any
    calls,              \* module imported: the functions called so far
    results             \* module imported: the input, then each call's result

vars == <<pc, df, cleaned_data, treatment, control, observed_z_score,
          critical_z_score, p_value, stdout, error, calls, results>>

unit == <<calls, results>>

\* the module run as a script: line 124 has read the file
Init ==
    /\ \E n \in 0..(IF MaxLen > MaxRows THEN MaxLen ELSE MaxRows) :
           \E u \in UserIds(n) : \E c \in [1..n -> Cells] : df = Frame(n, u, c)
    /\ pc = "clean"
    /\ cleaned_data = <<>>
    /\ treatment = <<>>
    /\ control = <<>>
    /\ observed_z_score = 0
    /\ critical_z_score = 0
    /\ p_value = 0
    /\ stdout = <<>>
    /\ error = NoError
    /\ calls = <<>>
    /\ results = <<>>

\* line 125
Clean ==
    /\ pc = "clean"
    /\ cleaned_data' = drop_incoherent_data(df)
    /\ pc' = "split"
    /\ UNCHANGED <<df, treatment, control, observed_z_score, critical_z_score,
                   p_value, stdout, error, unit>>

\* line 127
Split ==
    /\ pc = "split"
    /\ LET s == split_data(cleaned_data)
       IN  /\ treatment' = s.treatment
           /\ control' = s.control
    /\ pc' = "z_statistic"
    /\ UNCHANGED <<df, cleaned_data, observed_z_score, critical_z_score,
                   p_value, stdout, error, unit>>

\* line 128: an exception ends the run
ZStatistic ==
    /\ pc = "z_statistic"
    /\ LET r == compute_z_statistic(treatment, control)
       IN  IF r.error # NoError
           THEN /\ error' = r.error
                /\ pc' = "raised"
                /\ UNCHANGED <<observed_z_score, critical_z_score>>
           ELSE /\ observed_z_score' = r.observed_z_score
                /\ critical_z_score' = r.critical_z_score
                /\ pc' = "p_value"
                /\ UNCHANGED error
    /\ UNCHANGED <<df, cleaned_data, treatment, control, p_value, stdout, unit>>

\* line 129
ComputePValue ==
    /\ pc = "p_value"
    /\ p_value' = PValue(observed_z_score)
    /\ pc' = "print_z"
    /\ UNCHANGED <<df, cleaned_data, treatment, control, observed_z_score,
                   critical_z_score, stdout, error, unit>>

\* line 131
PrintZ ==
    /\ pc = "print_z"
    /\ stdout' = Append(stdout, [text |-> "Z-score", value |-> Fmt2(observed_z_score)])
    /\ pc' = "print_critical"
    /\ UNCHANGED <<df, cleaned_data, treatment, control, observed_z_score,
                   critical_z_score, p_value, error, unit>>

\* line 132
PrintCritical ==
    /\ pc = "print_critical"
    /\ stdout' = Append(stdout, [text |-> "Critical Z-score",
                                 value |-> Fmt2(critical_z_score)])
    /\ pc' = "print_verdict"
    /\ UNCHANGED <<df, cleaned_data, treatment, control, observed_z_score,
                   critical_z_score, p_value, error, unit>>

\* lines 134-137
PrintVerdict ==
    /\ pc = "print_verdict"
    /\ stdout' = Append(stdout,
            IF p_value < Alpha
            THEN [text |-> "Reject the null hypothesis, p-value", value |-> Fmt2(p_value)]
            ELSE [text |-> "Fail to reject the null hypothesis, p-value",
                  value |-> Fmt2(p_value)])
    /\ pc' = "exit"
    /\ UNCHANGED <<df, cleaned_data, treatment, control, observed_z_score,
                   critical_z_score, p_value, error, unit>>

Next ==
    \/ Clean
    \/ Split
    \/ ZStatistic
    \/ ComputePValue
    \/ PrintZ
    \/ PrintCritical
    \/ PrintVerdict

Spec == Init /\ [][Next]_vars

\* ------------------------------------------------------ the module imported
\* The __main__ block does not run; a caller applies the cleaning functions,
\* one to a DataFrame of its own and a second one to the first one's result.
script == <<pc, df, cleaned_data, treatment, control, observed_z_score,
            critical_z_score, p_value, stdout, error>>

InitImported ==
    /\ pc = "imported"
    /\ df = <<>>
    /\ cleaned_data = <<>>
    /\ treatment = <<>>
    /\ control = <<>>
    /\ observed_z_score = 0
    /\ critical_z_score = 0
    /\ p_value = 0
    /\ stdout = <<>>
    /\ error = NoError
    /\ calls = <<>>
    /\ \E n \in 0..MaxLen :
           \E u \in UserIds(n) : \E c \in [1..n -> Cells] : results = <<Frame(n, u, c)>>

Call(fn, result) ==
    /\ pc = "imported"
    /\ Len(calls) <= 1
    /\ calls' = Append(calls, fn)
    /\ results' = Append(results, result)
    /\ UNCHANGED script

CallDropDuplicatedUserid ==
    Call("drop_duplicated_userid", drop_duplicated_userid(results[Len(results)]))

CallDropMismatchedData ==
    Call("drop_mismatched_data", drop_mismatched_data(results[Len(results)]))

CallDropIncoherentData ==
    Call("drop_incoherent_data", drop_incoherent_data(results[Len(results)]))

NextImported ==
    \/ CallDropDuplicatedUserid
    \/ CallDropMismatchedData
    \/ CallDropIncoherentData

SpecImported == InitImported /\ [][NextImported]_vars

\* ================================================================== claims
Coherent(r) ==
    \/ (r.group = "treatment" /\ r.landing_page = "old_page")
    \/ (r.group = "control" /\ r.landing_page = "new_page")

\* the rows of s at the indices idx, in the order of s
RECURSIVE Pick(_, _)
Pick(s, idx) ==
    IF s = <<>> THEN <<>>
    ELSE LET n == Len(s)
             front == Pick(SubSeq(s, 1, n - 1), idx)
         IN  IF n \in idx THEN Append(front, s[n]) ELSE front

FirstOccurrences(s) ==
    {i \in 1..Len(s) : \A j \in 1..(i - 1) : s[j].user_id # s[i].user_id}

Rows(s) == {s[i] : i \in 1..Len(s)}

Cleaned == pc \notin {"imported", "clean"}
SplitDone == pc \notin {"imported", "clean", "split"}
ZStatisticDone == pc \notin {"imported", "clean", "split", "z_statistic"}

\* C1: the Cleaner's output holds only (treatment, old_page) and
\* (control, new_page) rows, and no two of its rows share a user_id.
C1_CleanedInvariant ==
    Cleaned =>
        /\ \A i \in 1..Len(cleaned_data) : Coherent(cleaned_data[i])
        /\ \A i, j \in 1..Len(cleaned_data) :
               i # j => cleaned_data[i].user_id # cleaned_data[j].user_id

\* the Cleaner has run on a file with a repeated user_id and a mismatched row
C1_Witness ==
    /\ pc = "split"
    /\ cleaned_data # <<>>
    /\ \E i, j \in 1..Len(df) :
           i < j /\ df[i].user_id = df[j].user_id /\ Coherent(df[i]) /\ Coherent(df[j])
    /\ \E k \in 1..Len(df) : ~Coherent(df[k])

\* C2 as stated: the reported p-value is 2 * (1 - Phi(|z_observed|)) and the
\* verdict line is "Reject" exactly when that value is below 0.05.
C2_TwoSidedVerdict ==
    pc = "exit" =>
        LET two_sided == 2 * (Scale - NormCdf(Abs(observed_z_score)))
            reject == two_sided < Alpha
        IN  /\ p_value = two_sided
            /\ stdout[3].text = (IF reject THEN "Reject the null hypothesis, p-value"
                                 ELSE "Fail to reject the null hypothesis, p-value")

\* C3 as stated: duplicate filter then mismatch filter leaves the same set of
\* rows as mismatch filter then duplicate filter, on every input.
C3_FiltersCommute ==
    calls = <<"drop_duplicated_userid", "drop_mismatched_data">> =>
        Rows(results[3]) = Rows(Pick(results[1],
            {i \in 1..Len(results[1]) :
                /\ Coherent(results[1][i])
                /\ \A j \in 1..(i - 1) :
                       Coherent(results[1][j]) => results[1][j].user_id # results[1][i].user_id}))

\* every user_id with a coherent row has its first row coherent
FirstRowCoherent(s) ==
    \A i \in 1..Len(s) :
        Coherent(s[i]) =>
            \A j \in FirstOccurrences(s) : s[j].user_id = s[i].user_id => Coherent(s[j])

\* C3 amended: the two orders agree exactly on the inputs where every user_id
\* that has a coherent row has its first row coherent.
C3_CommuteIffFirstRowCoherent ==
    calls = <<"drop_duplicated_userid", "drop_mismatched_data">> =>
        (results[3] = drop_incoherent_data(results[1]) <=> FirstRowCoherent(results[1]))

\* both orders agree although a duplicate and a mismatched row were dropped
C3_Witness ==
    /\ calls = <<"drop_duplicated_userid", "drop_mismatched_data">>
    /\ FirstRowCoherent(results[1])
    /\ Len(results[2]) < Len(results[1])
    /\ Len(results[3]) < Len(results[2])
    /\ results[3] # <<>>

\* C4: the duplicate filter returns, in input order, exactly the first row of
\* every user_id of its input.
C4_KeepsFirstOccurrence ==
    \A k \in 1..Len(calls) :
        calls[k] = "drop_duplicated_userid" =>
            results[k + 1] = Pick(results[k], FirstOccurrences(results[k]))

\* a later row of a repeated user_id was dropped, and two users were kept
C4_Witness ==
    /\ calls = <<"drop_duplicated_userid">>
    /\ Len(results[2]) = 2
    /\ Len(results[1]) = 3
    /\ results[1][1].user_id = results[1][3].user_id
    /\ results[1][1] # results[1][3]

\* C5: the mismatch filter keeps a row exactly when its pair is
\* (treatment, old_page) or (control, new_page), whatever its other columns.
C5_KeepsCoherentOnly ==
    \A k \in 1..Len(calls) :
        calls[k] = "drop_mismatched_data" =>
            results[k + 1] = Pick(results[k],
                {i \in 1..Len(results[k]) :
                    \/ (results[k][i].group = "treatment"
                        /\ results[k][i].landing_page = "old_page")
                    \/ (results[k][i].group = "control"
                        /\ results[k][i].landing_page = "new_page")})

\* a converted (treatment, new_page) row was dropped and a coherent row kept
C5_Witness ==
    /\ calls = <<"drop_mismatched_data">>
    /\ results[2] # <<>>
    /\ \E i \in 1..Len(results[1]) :
           /\ results[1][i].group = "treatment"
           /\ results[1][i].landing_page = "new_page"
           /\ results[1][i].converted = 1
           /\ results[1][i] \notin Rows(results[2])

\* C6: with an empty cohort the run ends in a ZeroDivisionError raised by
\* compute_conversion_rate, and nothing has been printed.
C6_EmptyCohortRaises ==
    (ZStatisticDone /\ (treatment = <<>> \/ control = <<>>)) =>
        /\ pc = "raised"
        /\ error.type = "ZeroDivisionError"
        /\ error.by = "compute_conversion_rate"
        /\ stdout = <<>>

\* the control cohort alone is empty
C6_Witness ==
    /\ pc = "raised"
    /\ treatment # <<>>
    /\ control = <<>>

\* C7: two non-empty cohorts in which nobody, or everybody, converted end the
\* run in a ZeroDivisionError of compute_z_statistic, and nothing is printed.
C7_ZeroPooledStdevRaises ==
    (/\ ZStatisticDone
     /\ treatment # <<>>
     /\ control # <<>>
     /\ \/ \A r \in Rows(treatment) \cup Rows(control) : r.converted = 0
        \/ \A r \in Rows(treatment) \cup Rows(control) : r.converted = 1) =>
        /\ pc = "raised"
        /\ error.type = "ZeroDivisionError"
        /\ error.by = "compute_z_statistic"
        /\ stdout = <<>>

\* everybody converted in two non-empty cohorts
C7_Witness ==
    /\ pc = "raised"
    /\ treatment # <<>>
    /\ control # <<>>
    /\ \A r \in Rows(treatment) \cup Rows(control) : r.converted = 1

\* C8 as stated: with the cohorts swapped the z-score is negated and the
\* p-value is the same.
C8_SwapSymmetry ==
    pc = "print_z" =>
        LET swapped == compute_z_statistic(control, treatment)
        IN  /\ swapped.error = NoError
            /\ swapped.observed_z_score = -observed_z_score
            /\ PValue(swapped.observed_z_score) = p_value

\* C9: after the split the treatment cohort holds exactly the treatment rows
\* of the cleaned data and the control cohort exactly its control rows; the
\* sizes add up and no row is in both.
C9_SplitPartitions ==
    SplitDone =>
        /\ treatment = Pick(cleaned_data,
               {i \in 1..Len(cleaned_data) : cleaned_data[i].group = "treatment"})
        /\ control = Pick(cleaned_data,
               {i \in 1..Len(cleaned_data) : cleaned_data[i].group = "control"})
        /\ Len(treatment) + Len(control) = Len(cleaned_data)
        /\ Rows(treatment) \cap Rows(control) = {}

\* both cohorts hold rows
C9_Witness ==
    /\ pc = "z_statistic"
    /\ Len(treatment) >= 2
    /\ Len(control) >= 1

\* C10: the Cleaner applied to its own output returns that output unchanged.
C10_CleanerIdempotent ==
    calls = <<"drop_incoherent_data", "drop_incoherent_data">> =>
        results[3] = results[2]

\* the first application dropped rows and kept some
C10_Witness ==
    /\ calls = <<"drop_incoherent_data", "drop_incoherent_data">>
    /\ results[2] # <<>>
    /\ Len(results[2]) < Len(results[1])
    /\ \E i, j \in 1..Len(results[1]) :
           i < j /\ results[1][i].user_id = results[1][j].user_id
                 /\ Coherent(results[1][i]) /\ Coherent(results[1][j])

====
